---- MODULE Spec2Model ----
(***************************************************************************)
(* Model of Cybermeneutics.py (class Corpus): the indexing pass process(), *)
(* the publication test and the link substitution of generate().           *)
(* Texts are sequences of one-character strings; positions are 1-based,    *)
(* and a search that fails returns 0 where Python returns -1.              *)
(***************************************************************************)
EXTENDS Integers, Sequences, FiniteSets, TLC

\* ------------------------------------------------------------------------
\* Characters and Python string primitives
\* ------------------------------------------------------------------------
UpperLetters == <<"A","B","C","D","E","F","G","H","I","J","K","L","M",
                  "N","O","P","Q","R","S","T","U","V","W","X","Y","Z">>

LowerLetters == <<"a","b","c","d","e","f","g","h","i","j","k","l","m",
                  "n","o","p","q","r","s","t","u","v","w","x","y","z">>

Digits == {"0","1","2","3","4","5","6","7","8","9"}

Range(s) == {s[i] : i \in DOMAIN s}

\* str.lower() on one character
LowerChar(c) ==
    IF \E i \in 1..26 : UpperLetters[i] = c
    THEN LowerLetters[CHOOSE i \in 1..26 : UpperLetters[i] = c]
    ELSE c

\* str.lower()
Lower(s) == [i \in DOMAIN s |-> LowerChar(s[i])]

\* the class \w of the re module
IsWordChar(c) == c \in Range(UpperLetters) \cup Range(LowerLetters) \cup Digits \cup {"_"}

\* the characters str.strip() removes
IsSpace(c) == c \in {" ", "\n", "\t"}

\* s[i:j] with 1-based inclusive bounds
Slice(s, i, j) == IF i > j THEN << >> ELSE SubSeq(s, i, j)

\* s.startswith(p, i): p occurs in s at position i
OccursAt(p, s, i) ==
    /\ i >= 1
    /\ i + Len(p) - 1 <= Len(s)
    /\ \A k \in 1..Len(p) : s[i + k - 1] = p[k]

\* s.endswith(p)
EndsWith(s, p) == Len(p) <= Len(s) /\ OccursAt(p, s, Len(s) - Len(p) + 1)

\* s.find(p, from): first position >= from where p occurs, 0 when none
Find(p, s, from) ==
    LET hits == {i \in from..(Len(s) - Len(p) + 1) : OccursAt(p, s, i)}
    IN  IF hits = {} THEN 0 ELSE CHOOSE i \in hits : \A j \in hits : i <= j

\* s.rfind(p): last position where p occurs, 0 when none
RFind(p, s) ==
    LET hits == {i \in 1..(Len(s) - Len(p) + 1) : OccursAt(p, s, i)}
    IN  IF hits = {} THEN 0 ELSE CHOOSE i \in hits : \A j \in hits : i >= j

\* p in s
Contains(s, p) == Find(p, s, 1) # 0

\* s.replace(old, new): non-overlapping occurrences, left to right
RECURSIVE ReplaceFrom(_, _, _, _)
ReplaceFrom(s, old, new, i) ==
    LET hit == Find(old, s, i)
    IN  IF hit = 0 THEN Slice(s, i, Len(s))
        ELSE Slice(s, i, hit - 1) \o new \o ReplaceFrom(s, old, new, hit + Len(old))

\* (the program never replaces the empty string)
Replace(s, old, new) == IF old = << >> THEN s ELSE ReplaceFrom(s, old, new, 1)

\* s.strip()
Strip(s) ==
    LET keep == {i \in DOMAIN s : ~IsSpace(s[i])}
    IN  IF keep = {} THEN << >>
        ELSE Slice(s, CHOOSE i \in keep : \A j \in keep : i <= j,
                      CHOOSE i \in keep : \A j \in keep : i >= j)

\* s.split(sep): the pieces between non-overlapping occurrences of sep
RECURSIVE SplitFrom(_, _, _)
SplitFrom(s, sep, from) ==
    LET hit == Find(sep, s, from)
    IN  IF hit = 0 THEN <<Slice(s, from, Len(s))>>
        ELSE <<Slice(s, from, hit - 1)>> \o SplitFrom(s, sep, hit + Len(sep))

Split(s, sep) == SplitFrom(s, sep, 1)

\* sep.join(parts)
RECURSIVE Join(_, _)
Join(parts, sep) ==
    IF parts = << >> THEN << >>
    ELSE IF Len(parts) = 1 THEN parts[1]
    ELSE parts[1] \o sep \o Join(Tail(parts), sep)

\* ------------------------------------------------------------------------
\* The re module on the patterns the program builds: \b + re.escape(w) + \b
\* with re.IGNORECASE
\* ------------------------------------------------------------------------
\* \b at the gap before position i (1..Len(s)+1)
Boundary(s, i) ==
    LET before == i > 1 /\ i - 1 <= Len(s) /\ IsWordChar(s[i - 1])
        after  == i >= 1 /\ i <= Len(s) /\ IsWordChar(s[i])
    IN  before # after

\* the pattern matches s at position i
MatchAt(w, s, i) ==
    /\ i >= 1
    /\ i + Len(w) - 1 <= Len(s)
    /\ \A k \in 1..Len(w) : LowerChar(s[i + k - 1]) = LowerChar(w[k])
    /\ Boundary(s, i)
    /\ Boundary(s, i + Len(w))

\* re.search(pattern, s, pos): the first match at or after from, 0 when none
Search(w, s, from) ==
    LET hits == {i \in from..(Len(s) + 1) : MatchAt(w, s, i)}
    IN  IF hits = {} THEN 0 ELSE CHOOSE i \in hits : \A j \in hits : i <= j

\* re.finditer: start positions of the non-overlapping matches, left to right
\* (after an empty match the scan moves on by one character)
RECURSIVE FindIterFrom(_, _, _)
FindIterFrom(w, s, i) ==
    LET hit == Search(w, s, i)
    IN  IF hit = 0 THEN << >>
        ELSE <<hit>> \o FindIterFrom(w, s, IF Len(w) = 0 THEN hit + 1 ELSE hit + Len(w))

FindIter(w, s) == FindIterFrom(w, s, 1)

\* ------------------------------------------------------------------------
\* String constants of the program
\* ------------------------------------------------------------------------
APOS == <<"'">>
APOS_S == <<"'", "s">>
SPACE == <<" ">>
UNDERSCORE == <<"_">>
NEWLINE == <<"\n">>
LINK_OPEN == <<"[", "[">>
LINK_CLOSE == <<"]", "]">>
LINK_BAR == <<"|">>
ENTITY_DIR == <<"E","N","T","I","T","Y","/">>
SLASH == <<"/">>
DOT_MD == <<".","m","d">>
DOT_TXT == <<".","t","x","t">>
YAML_FENCE == <<"-","-","-">>

LIST == <<"L","I","S","T">>
PERSON == <<"P","E","R","S","O","N">>
GPE == <<"G","P","E">>
ORG == <<"O","R","G">>
LOC == <<"L","O","C">>
FAC == <<"F","A","C">>
NORP == <<"N","O","R","P">>
DATE == <<"D","A","T","E">>
WORK_OF_ART == <<"W","O","R","K","_","O","F","_","A","R","T">>
PRODUCT == <<"P","R","O","D","U","C","T">>
CARDINAL == <<"C","A","R","D","I","N","A","L">>

\* the labels process() accepts
AllowedLabels == {PERSON, ORG, GPE, LOC, FAC, NORP, DATE, WORK_OF_ART, PRODUCT}

\* the title abbreviations _filter_dictionary compares against
TitleAbbreviations == {<<"M","r",".">>, <<"M","r","s",".">>, <<"M","s",".">>}

\* ------------------------------------------------------------------------
\* Text preparation of the scan pass
\* ------------------------------------------------------------------------
\* Corpus._clean_text; the typographic quotes and the backtick are the
\* characters named RSQUO, LDQUO, RDQUO and BACKTICK
_clean_text(text) ==
    LET t1 == Replace(text, <<"-">>, <<"-","-">>)
        t2 == Replace(t1, <<"-">>, <<"-">>)
        t3 == Replace(t2, <<"-","-">>, <<" ","-","-"," ">>)
        t4 == Replace(t3, <<" "," ">>, <<" ">>)
        t5 == Replace(t4, <<".">>, <<".",".",".">>)
        t6 == Replace(t5, <<"RSQUO">>, APOS)
        t7 == Replace(t6, APOS, APOS)
        t8 == Replace(t7, <<"LDQUO">>, <<"\"">>)
        t9 == Replace(t8, <<"RDQUO">>, <<"\"">>)
    IN  Replace(t9, <<"BACKTICK">>, APOS)

\* Corpus._extract_yaml_and_text: <<yaml, text>>, yaml = <<"None">> when absent
_extract_yaml_and_text(input_string) ==
    LET start == Find(YAML_FENCE, input_string, 1)
        end   == IF start = 0 THEN 0 ELSE Find(YAML_FENCE, input_string, start + 3)
    IN  IF start = 0 \/ end = 0 THEN << <<"None">>, input_string >>
        ELSE << Strip(Slice(input_string, start + 3, end - 1)),
                Strip(Slice(input_string, end + 3, Len(input_string))) >>

\* Corpus._clean_entity_text
_clean_entity_text(text) ==
    IF EndsWith(text, APOS_S) THEN Slice(text, 1, Len(text) - 2)
    ELSE IF EndsWith(text, APOS) THEN Slice(text, 1, Len(text) - 1)
    ELSE text

\* Corpus._filter_dictionary; token is a record with the fields kind
\* ("Token" or "Span"), text and, for a Token, is_stop
_filter_dictionary(token) ==
    LET text == token.text
        clean_text == Replace(Replace(Replace(text, <<"-">>, << >>), APOS, << >>),
                              <<".">>, << >>)
    IN  IF token.kind = "Token" /\ token.is_stop THEN FALSE
        ELSE IF Contains(text, NEWLINE) THEN FALSE
        ELSE IF Len(clean_text) < 2 THEN FALSE
        ELSE IF clean_text \in TitleAbbreviations THEN FALSE
        ELSE TRUE

\* Corpus._read_word_list on the content of list.txt
_read_word_list(file_content) ==
    LET content == Strip(file_content)
        lines == Split(content, NEWLINE)
        kept == SelectSeq(lines, LAMBDA word : Strip(word) # << >>)
    IN  IF content # << >>
        THEN [i \in DOMAIN kept |-> Lower(Strip(kept[i]))]
        ELSE << >>

\* ------------------------------------------------------------------------
\* self.dictionary: the entries in insertion order, each a record
\* [key, counts, type, original_text]; counts maps the files that have the
\* term to a positive count
\* ------------------------------------------------------------------------
HasKey(dict, key) == \E i \in DOMAIN dict : dict[i].key = key

IndexOfKey(dict, key) == CHOOSE i \in DOMAIN dict : dict[i].key = key

EntryOf(dict, key) == dict[IndexOfKey(dict, key)]

Keys(dict) == {dict[i].key : i \in DOMAIN dict}

\* sum(counts.values())
RECURSIVE SumCounts(_)
SumCounts(counts) ==
    IF DOMAIN counts = {} THEN 0
    ELSE LET f == CHOOSE f \in DOMAIN counts : TRUE
         IN  counts[f] + SumCounts([g \in DOMAIN counts \ {f} |-> counts[g]])

EmptyCounts == [f \in {} |-> 0]

\* counts[text_file] += n, creating the slot when absent
AddCount(counts, text_file, n) ==
    IF text_file \in DOMAIN counts
    THEN [counts EXCEPT ![text_file] = @ + n]
    ELSE [f \in DOMAIN counts \cup {text_file} |->
            IF f = text_file THEN n ELSE counts[f]]

\* Corpus._add_to_dictionary (original_text is always given by process)
_add_to_dictionary(dict, key, text_file, word_type, original_text) ==
    IF ~HasKey(dict, key)
    THEN Append(dict, [key |-> key,
                       counts |-> AddCount(EmptyCounts, text_file, 1),
                       type |-> word_type,
                       original_text |-> original_text])
    ELSE [dict EXCEPT ![IndexOfKey(dict, key)].counts = AddCount(@, text_file, 1)]

\* the body of the loop "for list_word in self.word_list" of process()
ScanListWord(dict, list_word, text, text_file) ==
    LET match_count == Len(FindIter(list_word, text))
        list_key == Replace(Lower(list_word), SPACE, UNDERSCORE)
    IN  IF match_count > 0
        THEN IF ~HasKey(dict, list_key)
             THEN Append(dict, [key |-> list_key,
                                counts |-> AddCount(EmptyCounts, text_file, match_count),
                                type |-> LIST,
                                original_text |-> list_word])
             ELSE [dict EXCEPT ![IndexOfKey(dict, list_key)].counts =
                                  AddCount(@, text_file, match_count)]
        ELSE dict

\* the loop "for list_word in self.word_list" over one file
RECURSIVE ScanWordList(_, _, _, _)
ScanWordList(dict, words, text, text_file) ==
    IF words = << >> THEN dict
    ELSE ScanWordList(ScanListWord(dict, Head(words), text, text_file),
                      Tail(words), text, text_file)

\* the seeding loop that resets the entry of a term it finds in the index
RECURSIVE SeedWordListOverwrite(_, _)
SeedWordListOverwrite(dict, words) ==
    IF words = << >> THEN dict
    ELSE LET word == Head(words)
             list_key == Replace(Lower(word), SPACE, UNDERSCORE)
             fresh == [key |-> list_key, counts |-> EmptyCounts,
                       type |-> LIST, original_text |-> word]
             seeded == IF ~HasKey(dict, list_key)
                       THEN Append(dict, fresh)
                       ELSE [dict EXCEPT ![IndexOfKey(dict, list_key)] = fresh]
         IN  SeedWordListOverwrite(seeded, Tail(words))

\* the loop "for word in self.word_list" that seeds the missing terms
RECURSIVE SeedWordList(_, _)
SeedWordList(dict, words) ==
    IF words = << >> THEN dict
    ELSE LET word == Head(words)
             list_key == Replace(Lower(word), SPACE, UNDERSCORE)
             seeded == IF ~HasKey(dict, list_key)
                       THEN Append(dict, [key |-> list_key,
                                          counts |-> EmptyCounts,
                                          type |-> LIST,
                                          original_text |-> word])
                       ELSE dict
         IN  SeedWordList(seeded, Tail(words))

\* ------------------------------------------------------------------------
\* Publication test and substitution of generate()
\* ------------------------------------------------------------------------
\* the condition of the card loop of generate()
PublishedCard(entry, min_sources, min_count) ==
    \/ /\ Cardinality(DOMAIN entry.counts) >= min_sources
       /\ SumCounts(entry.counts) >= min_count
    \/ entry.type = LIST

\* the condition of the substitution loop with > for >= on the total count
PublishedSubstStrict(entry, min_sources, min_count) ==
    \/ /\ Cardinality(DOMAIN entry.counts) >= min_sources
       /\ SumCounts(entry.counts) > min_count
    \/ entry.type = LIST

\* the condition of the substitution loop of generate()
PublishedSubst(entry, min_sources, min_count) ==
    \/ /\ Cardinality(DOMAIN entry.counts) >= min_sources
       /\ SumCounts(entry.counts) >= min_count
    \/ entry.type = LIST

\* _term_appears_in_file without the lookup of the file in counts
TermAppearsAnywhere(dict, term, file_path) == HasKey(dict, term)

\* Corpus._term_appears_in_file
_term_appears_in_file(dict, term, file_path) ==
    IF ~HasKey(dict, term) THEN FALSE
    ELSE file_path \in DOMAIN EntryOf(dict, term).counts

\* the link replacer() returns for a match it replaces
LinkText(word_type, link_word, matched_text) ==
    LINK_OPEN \o ENTITY_DIR \o word_type \o SLASH \o link_word
              \o LINK_BAR \o matched_text \o LINK_CLOSE

\* replacer() without its test for an enclosing link
InsideLinkNever(text, start_pos, end_pos) == FALSE

\* the test of replacer(): the match at start_pos lies inside a link of text
InsideLink(text, start_pos, end_pos) ==
    LET text_before == Slice(text, 1, start_pos - 1)
        text_after == Slice(text, end_pos, Len(text))
        last_open == RFind(LINK_OPEN, text_before)
        next_close == Find(LINK_CLOSE, text_after, 1)
        text_between == Slice(text, last_open, start_pos - 1)
    IN  /\ last_open # 0
        /\ ~Contains(text_between, LINK_CLOSE)
        /\ next_close # 0

\* replacer() that displays the pattern instead of the matched text
ReplacerDisplayPattern(text, pattern_word, word_type, link_word, start_pos) ==
    LET end_pos == start_pos + Len(pattern_word)
        matched_text == Slice(text, start_pos, end_pos - 1)
    IN  IF InsideLink(text, start_pos, end_pos) THEN matched_text
        ELSE LinkText(word_type, link_word, pattern_word)

\* replacer(match) of _replace_words for the match of pattern_word at start_pos
replacer(text, pattern_word, word_type, link_word, start_pos) ==
    LET end_pos == start_pos + Len(pattern_word)
        matched_text == Slice(text, start_pos, end_pos - 1)
    IN  IF InsideLink(text, start_pos, end_pos) THEN matched_text
        ELSE LinkText(word_type, link_word, matched_text)

\* the patterns list of _replace_words
Patterns(word) ==
    LET space_version == Replace(word, UNDERSCORE, SPACE)
        base == IF Contains(word, UNDERSCORE)
                THEN <<space_version, space_version>>
                ELSE <<word>>
        Possessives(p) == <<p \o APOS_S, p \o APOS>>
    IN  IF Len(base) = 2
        THEN base \o Possessives(base[1]) \o Possessives(base[2])
        ELSE base \o Possessives(base[1])

\* re.sub(pattern, replacer, text) from position i on: the text between the
\* matches is kept, each match is replaced by what replacer() returns for it
\* (after an empty match the scan moves on by one character)
RECURSIVE SubFrom(_, _, _, _, _)
SubFrom(pattern_word, text, word_type, link_word, i) ==
    LET hit == Search(pattern_word, text, i)
        replaced == replacer(text, pattern_word, word_type, link_word, hit)
    IN  IF hit = 0 THEN Slice(text, i, Len(text))
        ELSE IF Len(pattern_word) = 0
        THEN Slice(text, i, hit - 1) \o replaced \o Slice(text, hit, hit)
                \o SubFrom(pattern_word, text, word_type, link_word, hit + 1)
        ELSE Slice(text, i, hit - 1) \o replaced
                \o SubFrom(pattern_word, text, word_type, link_word, hit + Len(pattern_word))

\* the loop "for pattern_word, link_word, display_text in patterns"
RECURSIVE ApplyPatterns(_, _, _, _)
ApplyPatterns(text, patterns, word_type, link_word) ==
    IF patterns = << >> THEN text
    ELSE ApplyPatterns(SubFrom(Head(patterns), text, word_type, link_word, 1),
                       Tail(patterns), word_type, link_word)

\* _replace_words that returns a text that already holds a link as it is
ReplaceWordsUnlinkedOnly(dict, text, word, word_type, current_file_path) ==
    IF ~_term_appears_in_file(dict, word, current_file_path) THEN text
    ELSE IF Contains(text, LINK_OPEN) THEN text
    ELSE ApplyPatterns(text, Patterns(word), word_type, word)

\* Corpus._replace_words
_replace_words(dict, text, word, word_type, current_file_path) ==
    IF ~_term_appears_in_file(dict, word, current_file_path) THEN text
    ELSE ApplyPatterns(text, Patterns(word), word_type, word)

\* the substitution loop of generate() over the entries from position i on
RECURSIVE SubstFrom(_, _, _, _, _, _)
SubstFrom(dict, txt, file_path, minsources, mincount, i) ==
    IF i > Len(dict) THEN txt
    ELSE SubstFrom(dict,
                   IF PublishedSubst(dict[i], minsources, mincount)
                   THEN _replace_words(dict, txt, dict[i].key, dict[i].type, file_path)
                   ELSE txt,
                   file_path, minsources, mincount, i + 1)

\* the substitution loop of generate() on the text txt of file_path
SubstPass(dict, txt, file_path, minsources, mincount) ==
    SubstFrom(dict, txt, file_path, minsources, mincount, 1)

\* ------------------------------------------------------------------------
\* Output files
\* ------------------------------------------------------------------------
\* Corpus._create_file: files maps the paths written so far to their content
_create_file(files, path, content) ==
    LET p1 == Replace(path, <<"\"">>, << >>)
        p2 == Replace(p1, APOS, << >>)
    IN  [q \in DOMAIN files \cup {p2} |-> IF q = p2 THEN content ELSE files[q]]

NoFiles == [q \in {} |-> << >>]

\* the path of an entry's card below viewer_path, as generate() builds it
CardPath(entry) == ENTITY_DIR \o entry.type \o SLASH \o entry.key \o DOT_MD

\* the card content generate() builds: the title line, and either the
\* occurrence lines (one per source, with its count) or the not-found note
CardContent(entry) ==
    [display_name |-> entry.original_text,
     occurrences |-> entry.counts,
     not_found_note |-> (DOMAIN entry.counts = {})]

\* the path of a rewritten document below viewer_path
ViewerTextPath(file_path) ==
    Replace(<<"F","I","L","E","S","/">> \o file_path, DOT_TXT, DOT_MD)

\* ------------------------------------------------------------------------
\* The NER capability self.model(paragraph).ents
\* ------------------------------------------------------------------------
\* a span may not begin or end inside a word (spans are sequences of tokens)
TokenEdge(s, i) ==
    ~(i > 1 /\ i <= Len(s) /\ IsWordChar(s[i - 1]) /\ IsWordChar(s[i]))

\* ------------------------------------------------------------------------
\* Inputs of a run
\* ------------------------------------------------------------------------
\* the surface forms of the documents
Jacob == <<"J","a","c","o","b">>
jacob == <<"j","a","c","o","b">>
JacobPoss == <<"J","a","c","o","b","'","s">>
JacobWilliamson == <<"J","a","c","o","b"," ","W","i","l","l","i","a","m","s","o","n">>
JacobWilliamsonPoss == <<"J","a","c","o","b"," ","W","i","l","l","i","a","m","s","o","n","'","s">>
SanDiego == <<"S","a","n"," ","D","i","e","g","o">>
san_diego == <<"s","a","n"," ","d","i","e","g","o">>
snake_case == <<"s","n","a","k","e","_","c","a","s","e">>
snake_casePoss == <<"s","n","a","k","e","_","c","a","s","e","'","s">>
MrDot == <<"M","r",".">>
ONeil == <<"O","'","N","e","i","l">>
X == <<"X">>
XPoss == <<"X","'","s">>

\* the documents the data folder may hold
TextScenario1 == <<"J","a","c","o","b"," ","W","i","l","l","i","a","m","s","o","n"," ","w","e","n","t"," ","t","o"," ","S","a","n"," ","D","i","e","g","o","."," ","J","a","c","o","b"," ","W","i","l","l","i","a","m","s","o","n","'","s"," ","f","r","i","e","n","d"," ","a","l","s","o"," ","w","e","n","t",".">>
TextScenario2 == <<"J","a","c","o","b"," ","W","i","l","l","i","a","m","s","o","n"," ","i","s"," ","m","e","n","t","i","o","n","e","d"," ","a","g","a","i","n",".">>
TextVariants == <<"J","a","c","o","b","'","s"," ","j","a","c","o","b"," ","J","a","c","o","b">>
TextThree == <<"J","a","c","o","b"," ","J","a","c","o","b"," ","J","a","c","o","b">>
TextLinked == <<"[","[","a","|","J","a","c","o","b","]","]"," ","J","a","c","o","b">>
TextOpenLink == <<"[","["," ","J","a","c","o","b">>
TextWrapped == <<"J","a","c","o","b","\n","\n","s","a","n","\n","d","i","e","g","o">>
TextUnderscore == snake_case \o SPACE \o snake_casePoss
TextOpenTwo == <<"[","["," ","J","a","c","o","b"," ","z","e","b","r","a">>
TextTitle == <<"M","r",".","O","'","N","e","i","l"," ","X","'","s"," ","X">>
TextPerson == <<"J","a","c","o","b"," ","p","e","r","s","o","n"," ","z","e","b","r","a">>

\* the contents list.txt may have
ListEmpty == << >>
ListJacob == <<"J","a","c","o","b","\n","\n"," ","z","e","b","r","a"," ","\n">>
ListSanDiego == <<"s","a","n"," ","d","i","e","g","o","\n","j","a","c","o","b">>
ListPerson == <<"p","e","r","s","o","n","\n","z","e","b","r","a","\n","Z","e","b","r","a">>

\* the files of the data folder, in the order _find_text_files returns them
D1 == <<"D","1",".","t","x","t">>
D2 == <<"D","2",".","t","x","t">>

TextFiles == <<D1, D2>>

\* the data folders a run may start from: the content of D1 and of D2
Corpora == {<<TextScenario1, TextScenario2>>, <<TextVariants, TextThree>>,
            <<TextLinked, TextOpenLink>>, <<TextWrapped, TextVariants>>,
            <<TextUnderscore, TextUnderscore>>, <<TextOpenTwo, TextPerson>>,
            <<TextTitle, TextTitle>>}

ListFiles == {ListEmpty, ListJacob, ListSanDiego, ListPerson}

\* the spans the tagger can recognise and the labels it can give them
Surfaces == {Jacob, jacob, JacobPoss, JacobWilliamson, JacobWilliamsonPoss,
             SanDiego, san_diego, snake_case, snake_casePoss,
             MrDot, ONeil, X, XPoss}

\* the labels the tagger may give a span
TaggerLabels(surface) ==
    IF surface \in {SanDiego, san_diego} THEN {GPE}
    ELSE IF surface \in {snake_case, snake_casePoss} THEN {PRODUCT}
    ELSE IF surface = jacob THEN {PERSON, CARDINAL}
    ELSE {PERSON}

\* the most spans the tagger returns for one paragraph
MaxEnts == 3

\* the thresholds a run may be given
Thresholds == {<<1, 1>>, <<2, 3>>}

\* the spans of paragraph that start at or after from
TaggerSpans(paragraph, from) ==
    {sp \in (from..Len(paragraph)) \X (from..Len(paragraph)) :
        /\ sp[1] <= sp[2]
        /\ Slice(paragraph, sp[1], sp[2]) \in Surfaces
        /\ TokenEdge(paragraph, sp[1])
        /\ TokenEdge(paragraph, sp[2] + 1)}

\* doc.ents: the sequences of at most n labelled, non-overlapping spans,
\* in left-to-right order
RECURSIVE EntSequences(_, _, _)
EntSequences(paragraph, from, n) ==
    {<< >>} \cup
    (IF n = 0 THEN {}
     ELSE UNION {
        { <<[kind |-> "Span", text |-> Slice(paragraph, sp[1], sp[2]), label |-> l]>> \o rest :
            rest \in EntSequences(paragraph, sp[2] + 1, n - 1),
            l \in TaggerLabels(Slice(paragraph, sp[1], sp[2])) } :
        sp \in TaggerSpans(paragraph, from) })

\* ------------------------------------------------------------------------
\* State
\* ------------------------------------------------------------------------
VARIABLES
    files,            \* the data folder: file path -> content
    list_txt,         \* the content of list.txt
    min_sources,      \* self.min_sources
    min_count,        \* self.min_count
    word_list,        \* self.word_list
    dictionary,       \* self.dictionary
    dictionary_json,  \* dictionary.json: << >> until written, then <<index>>
    cards,            \* the index cards written below viewer_path
    viewer_texts,     \* the rewritten documents written below viewer_path
    pc,               \* the position in process() / generate()
    fileIdx,          \* the position of the loop over text_files
    text,             \* the local text of process() and of generate()
    paragraphs,       \* the local paragraphs of process()
    parIdx,           \* the position of the loop over paragraphs
    ents,             \* doc.ents of the current paragraph
    entIdx,           \* the position of the loop over doc.ents
    elemIdx,          \* the position of the loops over self.dictionary
    ner_memo,         \* what the tagger returned for each paragraph so far
    recorded,         \* the entity mentions passed to _add_to_dictionary
    candidates,       \* the (file, key) pairs passed to _replace_words
    scanned,          \* the files process() has finished scanning
    runs              \* the number of calls of process()

vars == <<files, list_txt, min_sources, min_count, word_list, dictionary,
          dictionary_json, cards, viewer_texts, pc, fileIdx, text, paragraphs,
          parIdx, ents, entIdx, elemIdx, ner_memo, recorded, candidates,
          scanned, runs>>

inputs == <<files, list_txt, min_sources, min_count>>

outputs == <<dictionary_json, cards, viewer_texts>>

\* the state after the assignments of Corpus.__init__, before self.process()
Init ==
    /\ \E corpus \in Corpora :
          files = [f \in Range(TextFiles) |-> corpus[CHOOSE i \in DOMAIN TextFiles : TextFiles[i] = f]]
    /\ list_txt \in ListFiles
    /\ \E th \in Thresholds : min_sources = th[1] /\ min_count = th[2]
    /\ word_list = << >>
    /\ dictionary = << >>
    /\ dictionary_json = << >>
    /\ cards = NoFiles
    /\ viewer_texts = NoFiles
    /\ pc = "read_list"
    /\ fileIdx = 1
    /\ text = << >>
    /\ paragraphs = << >>
    /\ parIdx = 1
    /\ ents = << >>
    /\ entIdx = 1
    /\ elemIdx = 1
    /\ ner_memo = [q \in {} |-> << >>]
    /\ recorded = << >>
    /\ candidates = {}
    /\ scanned = {}
    /\ runs = 1

\* ------------------------------------------------------------------------
\* process()
\* ------------------------------------------------------------------------
\* self._read_word_list() and text_files = self._find_text_files(...)
ReadList ==
    /\ pc = "read_list"
    /\ word_list' = _read_word_list(list_txt)
    /\ fileIdx' = 1
    /\ pc' = "open"
    /\ UNCHANGED <<inputs, outputs, dictionary, text, paragraphs, parIdx, ents,
                   entIdx, elemIdx, ner_memo, recorded, candidates, scanned, runs>>

\* the head of the loop over text_files: read, clean and split the file,
\* or leave the loop
OpenFile ==
    /\ pc = "open"
    /\ IF fileIdx <= Len(TextFiles)
       THEN LET cleaned == _clean_text(files[TextFiles[fileIdx]])
                body == _extract_yaml_and_text(cleaned)[2]
            IN  /\ text' = body
                /\ paragraphs' = Split(body, NEWLINE \o NEWLINE)
                /\ parIdx' = 1
                /\ pc' = "ner"
       ELSE /\ pc' = "seed"
            /\ UNCHANGED <<text, paragraphs, parIdx>>
    /\ UNCHANGED <<inputs, outputs, word_list, dictionary, fileIdx, ents, entIdx,
                   elemIdx, ner_memo, recorded, candidates, scanned, runs>>

\* doc = self.model(paragraph) on the next paragraph, newlines flattened;
\* the tagger answers the same for the same paragraph
TagParagraph ==
    /\ pc = "ner"
    /\ parIdx <= Len(paragraphs)
    /\ LET paragraph == Replace(paragraphs[parIdx], NEWLINE, SPACE)
       IN  /\ IF paragraph \in DOMAIN ner_memo
              THEN /\ ents' = ner_memo[paragraph]
                   /\ UNCHANGED ner_memo
              ELSE /\ ents' \in EntSequences(paragraph, 1, MaxEnts)
                   /\ ner_memo' = [q \in DOMAIN ner_memo \cup {paragraph} |->
                                    IF q = paragraph THEN ents' ELSE ner_memo[q]]
    /\ entIdx' = 1
    /\ IF ents' = << >>
       THEN parIdx' = parIdx + 1 /\ pc' = "ner"
       ELSE parIdx' = parIdx /\ pc' = "ents"
    /\ UNCHANGED <<inputs, outputs, word_list, dictionary, fileIdx, text, paragraphs,
                   elemIdx, recorded, candidates, scanned, runs>>

\* the body of the loop over doc.ents
RecordEntity ==
    /\ pc = "ents"
    /\ entIdx <= Len(ents)
    /\ LET ent == ents[entIdx]
           text_file == TextFiles[fileIdx]
           cleaned_entity_text == _clean_entity_text(ent.text)
           ent_key == Replace(cleaned_entity_text, SPACE, UNDERSCORE)
       IN  IF ent.label \in AllowedLabels /\ _filter_dictionary(ent)
           THEN /\ dictionary' = _add_to_dictionary(dictionary, ent_key, text_file,
                                                 ent.label, cleaned_entity_text)
                /\ recorded' = Append(recorded,
                      [text |-> ent.text, key |-> ent_key, file |-> text_file])
           ELSE UNCHANGED <<dictionary, recorded>>
    /\ entIdx' = entIdx + 1
    /\ IF entIdx = Len(ents)
       THEN parIdx' = parIdx + 1 /\ pc' = "ner"
       ELSE parIdx' = parIdx /\ pc' = "ents"
    /\ UNCHANGED <<inputs, outputs, word_list, fileIdx, text, paragraphs, ents,
                   elemIdx, ner_memo, candidates, scanned, runs>>

\* the loop over self.word_list for the current file, after its paragraphs
ScanList ==
    /\ pc = "ner"
    /\ parIdx > Len(paragraphs)
    /\ dictionary' = ScanWordList(dictionary, word_list, text, TextFiles[fileIdx])
    /\ scanned' = scanned \cup {TextFiles[fileIdx]}
    /\ fileIdx' = fileIdx + 1
    /\ pc' = "open"
    /\ UNCHANGED <<inputs, outputs, word_list, text, paragraphs, parIdx, ents,
                   entIdx, elemIdx, ner_memo, recorded, candidates, runs>>

\* the loop that seeds the word-list terms missing from the dictionary
SeedList ==
    /\ pc = "seed"
    /\ dictionary' = SeedWordList(dictionary, word_list)
    /\ pc' = "save"
    /\ UNCHANGED <<inputs, outputs, word_list, fileIdx, text, paragraphs, parIdx,
                   ents, entIdx, elemIdx, ner_memo, recorded, candidates, scanned, runs>>

\* generate() started without the index having been serialized
SaveDictionarySkipped ==
    /\ pc = "save"
    /\ elemIdx' = 1
    /\ pc' = IF runs = 1 THEN "cards" ELSE "done"
    /\ UNCHANGED <<inputs, outputs, word_list, dictionary, fileIdx, text,
                   paragraphs, parIdx, ents, entIdx, ner_memo, recorded, candidates,
                   scanned, runs>>

\* json.dump(self.dictionary, ...) and the return of process(); the call
\* made by __init__ is followed by self.generate()
SaveDictionary ==
    /\ pc = "save"
    /\ dictionary_json' = <<dictionary>>
    /\ elemIdx' = 1
    /\ pc' = IF runs = 1 THEN "cards" ELSE "done"
    /\ UNCHANGED <<inputs, cards, viewer_texts, word_list, dictionary, fileIdx, text,
                   paragraphs, parIdx, ents, entIdx, ner_memo, recorded, candidates,
                   scanned, runs>>

\* ------------------------------------------------------------------------
\* generate()
\* ------------------------------------------------------------------------
\* the card loop: one element of self.dictionary, or the end of the loop
GenerateCard ==
    /\ pc = "cards"
    /\ IF elemIdx <= Len(dictionary)
       THEN LET entry == dictionary[elemIdx]
            IN  /\ cards' = IF PublishedCard(entry, min_sources, min_count)
                            THEN _create_file(cards, CardPath(entry), CardContent(entry))
                            ELSE cards
                /\ elemIdx' = elemIdx + 1
                /\ UNCHANGED <<pc, fileIdx>>
       ELSE /\ pc' = "gen_open"
            /\ fileIdx' = 1
            /\ UNCHANGED <<cards, elemIdx>>
    /\ UNCHANGED <<inputs, dictionary_json, viewer_texts, word_list, dictionary, text,
                   paragraphs, parIdx, ents, entIdx, ner_memo, recorded, candidates,
                   scanned, runs>>

\* the head of the loop over text_files of generate(): read the file, or
\* leave the loop
GenOpenFile ==
    /\ pc = "gen_open"
    /\ IF fileIdx <= Len(TextFiles)
       THEN /\ text' = files[TextFiles[fileIdx]]
            /\ elemIdx' = 1
            /\ pc' = "gen_replace"
       ELSE /\ pc' = "done"
            /\ UNCHANGED <<text, elemIdx>>
    /\ UNCHANGED <<inputs, outputs, word_list, dictionary, fileIdx, paragraphs, parIdx,
                   ents, entIdx, ner_memo, recorded, candidates, scanned, runs>>

\* the substitution loop: one element of self.dictionary
GenReplace ==
    /\ pc = "gen_replace"
    /\ elemIdx <= Len(dictionary)
    /\ LET entry == dictionary[elemIdx]
           file_path == TextFiles[fileIdx]
       IN  IF PublishedSubst(entry, min_sources, min_count)
           THEN /\ text' = _replace_words(dictionary, text, entry.key, entry.type, file_path)
                /\ candidates' = candidates \cup {<<file_path, entry.key>>}
           ELSE UNCHANGED <<text, candidates>>
    /\ elemIdx' = elemIdx + 1
    /\ UNCHANGED <<inputs, outputs, word_list, dictionary, pc, fileIdx, paragraphs,
                   parIdx, ents, entIdx, ner_memo, recorded, scanned, runs>>

\* self._create_file(viewer_path, text) after the substitution loop
GenWriteFile ==
    /\ pc = "gen_replace"
    /\ elemIdx > Len(dictionary)
    /\ viewer_texts' = _create_file(viewer_texts, ViewerTextPath(TextFiles[fileIdx]), text)
    /\ fileIdx' = fileIdx + 1
    /\ pc' = "gen_open"
    /\ UNCHANGED <<inputs, dictionary_json, cards, word_list, dictionary, text,
                   paragraphs, parIdx, ents, entIdx, elemIdx, ner_memo, recorded,
                   candidates, scanned, runs>>

Next ==
    \/ ReadList
    \/ OpenFile
    \/ TagParagraph
    \/ RecordEntity
    \/ ScanList
    \/ SeedList
    \/ SaveDictionary
    \/ GenerateCard
    \/ GenOpenFile
    \/ GenReplace
    \/ GenWriteFile

Spec == Init /\ [][Next]_vars

\* ------------------------------------------------------------------------
\* A second call of process() on the same Corpus object
\* ------------------------------------------------------------------------
\* the most calls of process() on one object
MaxRuns == 2

\* corpus.process() once __init__ has returned: nothing is reset
ProcessAgain ==
    /\ pc = "done"
    /\ runs < MaxRuns
    /\ runs' = runs + 1
    /\ pc' = "read_list"
    /\ UNCHANGED <<inputs, outputs, word_list, dictionary, fileIdx, text, paragraphs,
                   parIdx, ents, entIdx, elemIdx, ner_memo, recorded, candidates,
                   scanned>>

NextRerun == Next \/ ProcessAgain

SpecRerun == Init /\ [][NextRerun]_vars

\* ------------------------------------------------------------------------
\* Documents that cannot be read
\* ------------------------------------------------------------------------
\* open(text_file) or f.read() of process() raises (OSError, UnicodeDecodeError):
\* nothing catches it, the exception leaves process() and __init__
OpenFileFails ==
    /\ pc = "open"
    /\ fileIdx <= Len(TextFiles)
    /\ pc' = "raised"
    /\ UNCHANGED <<inputs, outputs, word_list, dictionary, fileIdx, text, paragraphs,
                   parIdx, ents, entIdx, elemIdx, ner_memo, recorded, candidates,
                   scanned, runs>>

\* open(file_path) or f.read() of generate() raises: nothing catches it
GenOpenFileFails ==
    /\ pc = "gen_open"
    /\ fileIdx <= Len(TextFiles)
    /\ pc' = "raised"
    /\ UNCHANGED <<inputs, outputs, word_list, dictionary, fileIdx, text, paragraphs,
                   parIdx, ents, entIdx, elemIdx, ner_memo, recorded, candidates,
                   scanned, runs>>

NextReadFailure == Next \/ OpenFileFails \/ GenOpenFileFails

SpecReadFailure == Init /\ [][NextReadFailure]_vars

\* ------------------------------------------------------------------------
\* Properties
\* ------------------------------------------------------------------------
GeneratePhases == {"cards", "gen_open", "gen_replace", "done"}

Written(f) == ViewerTextPath(f) \in DOMAIN viewer_texts

Rewritten(f) == viewer_texts[ViewerTextPath(f)]

\* scanning text from position i, every [[ is closed by a ]] before the next [[
RECURSIVE WellFormedFrom(_, _)
WellFormedFrom(txt, i) ==
    LET open == Find(LINK_OPEN, txt, i)
        close == Find(LINK_CLOSE, txt, open + 2)
        next_open == Find(LINK_OPEN, txt, open + 2)
    IN  IF open = 0 THEN TRUE
        ELSE /\ close # 0
             /\ next_open = 0 \/ close < next_open
             /\ WellFormedFrom(txt, close + 2)

WellFormedLinks(txt) == WellFormedFrom(txt, 1)

\* no key of the index contains a link marker
PlainKeys ==
    \A i \in DOMAIN dictionary :
        ~Contains(dictionary[i].key, LINK_OPEN) /\ ~Contains(dictionary[i].key, LINK_CLOSE)

\* C1 as stated: whatever the source text, in every rewritten document every
\* [[ is closed by a ]] before the next [[, so that no two links overlap or nest
C1_AnySourceWellFormed ==
    \A f \in Range(TextFiles) : Written(f) => WellFormedLinks(Rewritten(f))

\* C1 amended: when the markers of the source text are themselves well formed
\* (or absent) and no index key contains a marker, every [[ of the rewritten
\* document is closed by a ]] before the next [[: no links overlap or nest
C1_NoNestedLinks ==
    \A f \in Range(TextFiles) :
        (Written(f) /\ WellFormedLinks(files[f]) /\ PlainKeys)
            => WellFormedLinks(Rewritten(f))

\* a document that already held a link was rewritten with a link added
C1_Witness ==
    \E f \in Range(TextFiles) :
        /\ Written(f)
        /\ Contains(files[f], LINK_OPEN)
        /\ WellFormedLinks(files[f])
        /\ Len(Rewritten(f)) > Len(files[f])

\* the opening of a link to the card of entry
LinkPrefix(entry) ==
    LINK_OPEN \o ENTITY_DIR \o entry.type \o SLASH \o entry.key \o LINK_BAR

\* C2 document scoping: when the counts of entry E have no key D, the rewritten
\* copy of D holds no link to E's target (unless the source of D already did)
C2_DocumentScoping ==
    \A f \in Range(TextFiles) : \A i \in DOMAIN dictionary :
        (Written(f) /\ f \notin DOMAIN dictionary[i].counts)
            => (Contains(Rewritten(f), LinkPrefix(dictionary[i]))
                    => Contains(files[f], LinkPrefix(dictionary[i])))

\* a published entry that is not attested in a document whose text matches it,
\* and that document has been rewritten
C2_Witness ==
    \E f \in Range(TextFiles) : \E i \in DOMAIN dictionary :
        /\ Written(f)
        /\ f \notin DOMAIN dictionary[i].counts
        /\ PublishedSubst(dictionary[i], min_sources, min_count)
        /\ <<f, dictionary[i].key>> \in candidates
        /\ FindIter(Replace(dictionary[i].key, UNDERSCORE, SPACE), files[f]) # << >>

\* the mentions recorded so far whose surface text is one of the given texts
MentionsOf(surface_texts) ==
    {i \in DOMAIN recorded : recorded[i].text \in surface_texts}

\* C3 normalization stability: the mentions "Jacob's", "jacob" and "Jacob" are
\* recorded under one identity key, and the entry of that key made from
\* "Jacob's" has the display text "Jacob"
C3_NormalizationStability ==
    /\ \A i, j \in MentionsOf({JacobPoss, jacob, Jacob}) :
            recorded[i].key = recorded[j].key
    /\ \A i \in MentionsOf({JacobPoss}) :
            /\ HasKey(dictionary, recorded[i].key)
            /\ (\A j \in 1..(i - 1) : recorded[j].key # recorded[i].key)
                    => EntryOf(dictionary, recorded[i].key).original_text = Jacob

\* the file _create_file writes for the card of entry
CardFile(entry) ==
    CHOOSE q \in DOMAIN _create_file(NoFiles, CardPath(entry), << >>) : TRUE

\* the publication rule of the claim
RulePublished(entry) ==
    \/ /\ Cardinality(DOMAIN entry.counts) >= min_sources
       /\ SumCounts(entry.counts) >= min_count
    \/ entry.type = LIST

\* C4 publication rule: once generate() has run, an entry has an index card,
\* and was passed to _replace_words for every document, exactly when (it has
\* at least min_sources documents and at least min_count mentions) or its type
\* is LIST; the card loop and the substitution loop agree
C4_PublicationRule ==
    pc = "done" =>
        \A i \in DOMAIN dictionary :
            /\ RulePublished(dictionary[i]) <=> CardFile(dictionary[i]) \in DOMAIN cards
            /\ \A f \in Range(TextFiles) :
                 RulePublished(dictionary[i]) <=> <<f, dictionary[i].key>> \in candidates

\* the boundary cases with min_sources = 2 and min_count = 3: a non-LIST entry
\* with two documents and three mentions has its card, one with fewer has none
C4_Witness ==
    /\ pc = "done"
    /\ min_sources = 2
    /\ min_count = 3
    /\ \E i, j \in DOMAIN dictionary :
        /\ dictionary[i].type # LIST
        /\ Cardinality(DOMAIN dictionary[i].counts) = 2
        /\ SumCounts(dictionary[i].counts) = 3
        /\ CardFile(dictionary[i]) \in DOMAIN cards
        /\ <<D1, dictionary[i].key>> \in candidates
        /\ dictionary[j].type # LIST
        /\ CardFile(dictionary[j]) \notin DOMAIN cards
        /\ <<D1, dictionary[j].key>> \notin candidates

\* the key process() gives a word-list term
ListKey(word) == Replace(Lower(word), SPACE, UNDERSCORE)

\* process() has seeded the word list
Seeded == pc \in {"save"} \cup GeneratePhases

\* C5 word-list terms are always published: after process(), the entry under
\* the key of every word-list term passes the publication test of generate(),
\* whatever the thresholds and whatever was recorded under that key before
C5_ListTermsPublished ==
    Seeded =>
        \A k \in DOMAIN word_list :
            /\ HasKey(dictionary, ListKey(word_list[k]))
            /\ PublishedCard(EntryOf(dictionary, ListKey(word_list[k])), min_sources, min_count)
            /\ PublishedSubst(EntryOf(dictionary, ListKey(word_list[k])), min_sources, min_count)

\* the counts of an index, by key
CountsOf(dict) == [k \in Keys(dict) |-> EntryOf(dict, k).counts]

\* C6 indexing idempotence: when a second call of process() over the same
\* documents and word list reaches its end, the counts of the index are those
\* the first call left (dictionary.json still holds the index of the first call)
C6_IndexingIdempotent ==
    (runs = 2 /\ pc = "save") => CountsOf(dictionary) = CountsOf(dictionary_json[1])

\* the number of (possibly overlapping) occurrences of p in s
CountOccurrences(s, p) == Cardinality({i \in 1..Len(s) : OccursAt(p, s, i)})

\* the words of a key, case-folded
KeyWords(key) == Range(Split(Lower(key), UNDERSCORE))

\* no other entry of the index has a word in common with entry i
Isolated(i) ==
    \A j \in DOMAIN dictionary :
        j # i => KeyWords(dictionary[j].key) \cap KeyWords(dictionary[i].key) = {}

NoMarkers(txt) == ~Contains(txt, LINK_OPEN) /\ ~Contains(txt, LINK_CLOSE)

\* the mentions recorded under key for file
MentionsUnder(key, file) ==
    {i \in DOMAIN recorded : recorded[i].key = key /\ recorded[i].file = file}

\* C7 possessive mentions resolve to the base entity: the spans T and T's are
\* recorded under the one key of T and each adds one to its count for the
\* document; in the rewrite of a document every mention of a published entry
\* that shares no word with another entry, plain or possessive, is a link to
\* ENTITY/<type>/<key of T> whose display text is T as it stands in the
\* document (the possessive suffix follows the link), and the document holds
\* one such link per occurrence of T
C7_PossessiveToBase ==
    /\ \A i, j \in DOMAIN recorded :
         (/\ recorded[j].text = recorded[i].text \o APOS_S
          /\ ~EndsWith(recorded[i].text, APOS)
          /\ ~EndsWith(recorded[i].text, APOS_S))
            => /\ recorded[j].key = recorded[i].key
               /\ recorded[i].key = Replace(recorded[i].text, SPACE, UNDERSCORE)
    /\ \A i \in DOMAIN dictionary : \A f \in Range(TextFiles) :
         (\A k \in DOMAIN word_list : ListKey(word_list[k]) # dictionary[i].key)
            => /\ f \in DOMAIN dictionary[i].counts <=> MentionsUnder(dictionary[i].key, f) # {}
               /\ f \in DOMAIN dictionary[i].counts =>
                    dictionary[i].counts[f] = Cardinality(MentionsUnder(dictionary[i].key, f))
    /\ pc = "done" =>
         \A m \in DOMAIN recorded :
            LET i == IndexOfKey(dictionary, recorded[m].key)
                entry == dictionary[i]
                f == recorded[m].file
                base == _clean_entity_text(recorded[m].text)
                suffix == Slice(recorded[m].text, Len(base) + 1, Len(recorded[m].text))
            IN  (/\ RulePublished(entry)
                 /\ Isolated(i)
                 /\ NoMarkers(files[f])
                 /\ Contains(files[f], recorded[m].text))
                    => /\ Contains(Rewritten(f), LinkText(entry.type, entry.key, base) \o suffix)
                       /\ CountOccurrences(Rewritten(f), LinkPrefix(entry))
                            = Len(FindIter(Replace(entry.key, UNDERSCORE, SPACE), files[f]))

\* the text with every inserted link [[ENTITY/...|display]] replaced by display
RECURSIVE UnlinkFrom(_, _)
UnlinkFrom(txt, i) ==
    LET open == Find(LINK_OPEN \o ENTITY_DIR, txt, i)
        bar == Find(LINK_BAR, txt, open)
        close == Find(LINK_CLOSE, txt, bar + 1)
    IN  IF open = 0 \/ bar = 0 \/ close = 0 THEN Slice(txt, i, Len(txt))
        ELSE Slice(txt, i, open - 1) \o Slice(txt, bar + 1, close - 1)
                \o UnlinkFrom(txt, close + 2)

Unlink(txt) == UnlinkFrom(txt, 1)

\* C8 a rewritten document is its source with links inserted: when the source
\* holds no [[ or ]], replacing every inserted link by its display part gives
\* back the source text, character for character
C8_SourcePreserved ==
    \A f \in Range(TextFiles) :
        (Written(f) /\ NoMarkers(files[f])) => Unlink(Rewritten(f)) = files[f]

\* a rewritten document in which the entry Jacob links a match written jacob
C8_Witness ==
    \E f \in Range(TextFiles) :
        /\ Written(f)
        /\ NoMarkers(files[f])
        /\ Contains(Rewritten(f), LinkText(PERSON, Jacob, jacob))
        /\ Contains(Rewritten(f), LinkText(PERSON, Jacob, Jacob))

\* the text of file f that process() scans
ScanText(f) == _extract_yaml_and_text(_clean_text(files[f]))[2]

\* the word-list term matched in no document
MatchedNowhere(term) ==
    \A f \in Range(TextFiles) : FindIter(term, ScanText(f)) = << >>

CardsWritten == pc \in {"gen_open", "gen_replace", "done"}

\* the entry of term is an empty LIST entry, and its card, once the card loop
\* is over, carries the not-found note
EmptyListEntry(term) ==
    LET entry == EntryOf(dictionary, ListKey(term))
    IN  /\ entry.type = LIST
        /\ entry.counts = EmptyCounts
        /\ CardsWritten =>
             /\ CardFile(entry) \in DOMAIN cards
             /\ cards[CardFile(entry)].not_found_note

\* seeding leaves every entry that was already in the index as it was
SeedingKeepsEntries ==
    SeedList => \A i \in DOMAIN dictionary : dictionary'[i] = dictionary[i]

\* C9 as stated: after process() every word-list term has an entry; a term that
\* matched in no document has type LIST, empty counts and a card with the
\* not-found note; seeding leaves an existing entry unchanged
C9_SeededAsStated ==
    /\ [](Seeded =>
            \A k \in DOMAIN word_list :
                /\ HasKey(dictionary, ListKey(word_list[k]))
                /\ MatchedNowhere(word_list[k]) => EmptyListEntry(word_list[k]))
    /\ [][SeedingKeepsEntries]_vars

\* nothing was recorded under the key of term during the scan: no entity
\* mention, and no match of a word-list term with that key
NothingRecordedUnder(term) ==
    /\ \A m \in DOMAIN recorded : recorded[m].key # ListKey(term)
    /\ \A k \in DOMAIN word_list :
         ListKey(word_list[k]) = ListKey(term) => MatchedNowhere(word_list[k])

\* C9 amended: after process() every word-list term has an entry; a term under
\* whose key nothing was recorded during the scan has type LIST, empty counts
\* and a card with the not-found note; seeding leaves an existing entry unchanged
C9_WordListSeeded ==
    /\ [](Seeded =>
            \A k \in DOMAIN word_list :
                /\ HasKey(dictionary, ListKey(word_list[k]))
                /\ NothingRecordedUnder(word_list[k]) => EmptyListEntry(word_list[k]))
    /\ [][SeedingKeepsEntries]_vars

\* a term found nowhere has its card with the not-found note, next to a term
\* whose entry kept the counts it had before the seeding
C9_Witness ==
    /\ pc = "done"
    /\ \E k, l \in DOMAIN word_list :
        /\ NothingRecordedUnder(word_list[k])
        /\ cards[CardFile(EntryOf(dictionary, ListKey(word_list[k])))].not_found_note
        /\ EntryOf(dictionary, ListKey(word_list[l])).counts # EmptyCounts

\* process() is over: every document scanned, every word-list term seeded,
\* and the index serialized as it now stands
ScanComplete ==
    /\ scanned = Range(TextFiles)
    /\ \A k \in DOMAIN word_list : HasKey(dictionary, ListKey(word_list[k]))
    /\ dictionary_json = <<dictionary>>

\* a step of generate() leaves the index as it is
GenerateKeepsIndex ==
    pc \in {"cards", "gen_open", "gen_replace"} => dictionary' = dictionary

\* C10 scan/substitution barrier: no card and no rewritten document exists
\* until process() has scanned every document, seeded every term and written
\* dictionary.json, and from then on generate() never changes the index
C10_ScanBarrier ==
    /\ []((DOMAIN cards # {} \/ DOMAIN viewer_texts # {} \/ pc \in GeneratePhases)
            => ScanComplete)
    /\ [][GenerateKeepsIndex]_vars

\* generate() has written cards and documents from a non-empty index
C10_Witness ==
    /\ pc = "done"
    /\ DOMAIN cards # {}
    /\ DOMAIN viewer_texts = {ViewerTextPath(D1), ViewerTextPath(D2)}
    /\ Len(dictionary) >= 2
    /\ \E f \in Range(TextFiles) : Rewritten(f) # files[f]

\* the run is over: generate() returned, or an exception ended it
RunEnded == pc \in {"done", "raised"}

\* the read of file f is the one that failed
ReadFailed(f) == pc = "raised" /\ TextFiles[fileIdx] = f

\* C11 a document that cannot be read is skipped: when the run is over the index
\* has been serialized, and every document other than the one whose read failed
\* has been scanned by process() and rewritten by generate()
C11_ReadFailureSkipped ==
    RunEnded =>
        /\ dictionary_json # << >>
        /\ \A f \in Range(TextFiles) :
             ~ReadFailed(f) => (f \in scanned /\ Written(f))

\* _replace_words for entry a and then for entry b on the text txt of file f
ReplaceBoth(txt, a, b, f) ==
    _replace_words(dictionary,
                   _replace_words(dictionary, txt, a.key, a.type, f),
                   b.key, b.type, f)

\* the positions of txt covered by a match of a surface variant of key
Covered(key, txt) ==
    UNION {i..(i + Len(w) - 1) : <<w, i>> \in
            {wi \in Range(Patterns(key)) \X (1..Len(txt)) : MatchAt(wi[1], txt, wi[2])}}

\* two published entries (i before j in the index) attested in f whose
\* variants share no character of the text of f
IndependentPair(i, j, f) ==
    /\ i < j
    /\ PublishedSubst(dictionary[i], min_sources, min_count)
    /\ PublishedSubst(dictionary[j], min_sources, min_count)
    /\ f \in DOMAIN dictionary[i].counts
    /\ f \in DOMAIN dictionary[j].counts
    /\ Covered(dictionary[i].key, files[f]) # {}
    /\ Covered(dictionary[j].key, files[f]) # {}
    /\ Covered(dictionary[i].key, files[f]) \cap Covered(dictionary[j].key, files[f]) = {}

WordEdged(key) ==
    /\ key # << >>
    /\ IsWordChar(key[1]) /\ key[1] # "_"
    /\ IsWordChar(key[Len(key)]) /\ key[Len(key)] # "_"

Unpunctuated(txt) == SelectSeq(txt, LAMBDA c : c \notin {"-", "'", "."})

\* C14 short mentions never enter the index: every entity mention that was
\* recorded, with its possessive suffix and its punctuation removed, has at
\* least 2 characters, and so have the key and the display text of its entry;
\* no entry has the empty key
C14_ShortMentionsRejected ==
    /\ \A m \in DOMAIN recorded :
         /\ Len(Unpunctuated(_clean_entity_text(recorded[m].text))) >= 2
         /\ Len(Unpunctuated(recorded[m].key)) >= 2
         /\ Len(Unpunctuated(EntryOf(dictionary, recorded[m].key).original_text)) >= 2
    /\ \A i \in DOMAIN dictionary : dictionary[i].key # << >>

\* C15 title abbreviations are rejected: no span whose text is "Mr.", "Mrs."
\* or "Ms." is ever passed to _add_to_dictionary, so none creates or increments
\* an entry
C15_TitlesRejected ==
    \A m \in DOMAIN recorded : recorded[m].text \notin TitleAbbreviations

\* no entity mention was recorded under the key of the word-list term
NoMentionShares(term) ==
    \A m \in DOMAIN recorded : recorded[m].key # ListKey(term)

\* C16 word-list counting: after process(), for every word-list term whose key
\* no entity mention shares and every document, the count of the term's entry
\* for the document is the number of whole-word, case-insensitive matches of
\* the term in the document's text, and the document is absent from the counts
\* when there is no match; the word list may repeat a term
C16_WordListCounts ==
    Seeded =>
        \A k \in DOMAIN word_list : \A f \in Range(TextFiles) :
            NoMentionShares(word_list[k]) =>
                LET counts == EntryOf(dictionary, ListKey(word_list[k])).counts
                    matches == Len(FindIter(word_list[k], ScanText(f)))
                IN  /\ matches = 0 => f \notin DOMAIN counts
                    /\ matches > 0 => (f \in DOMAIN counts /\ counts[f] = matches)

\* generate() inserted a link to the target of entry into the rewrite of f
LinkInserted(entry, f) ==
    /\ Written(f)
    /\ Contains(Rewritten(f), LinkPrefix(entry))
    /\ ~Contains(files[f], LinkPrefix(entry))

\* C17 every inserted link resolves to a card: once generate() has run, for
\* every link [[ENTITY/<type>/<key>|...]] inserted into a rewritten document a
\* card was written at exactly ENTITY/<type>/<key>.md, and two published
\* entries never share the file of their card
C17_LinksResolve ==
    pc = "done" =>
        /\ \A f \in Range(TextFiles) : \A i \in DOMAIN dictionary :
             LinkInserted(dictionary[i], f) => CardPath(dictionary[i]) \in DOMAIN cards
        /\ \A i, j \in DOMAIN dictionary :
             (/\ i # j
              /\ PublishedCard(dictionary[i], min_sources, min_count)
              /\ PublishedCard(dictionary[j], min_sources, min_count))
                => CardFile(dictionary[i]) # CardFile(dictionary[j])

====
